---- MODULE Spec2Model ----
(***************************************************************************)
(* Model of the `icon` crate: theme-graph resolution                       *)
(* (IconLocations::resolve_only), icon lookup (Theme::find_icon_here,       *)
(* Theme::find_icon, Icons::find_icon) and directory size matching          *)
(* (DirectoryIndex::size_distance, DirectoryIndex::matches_size).           *)
(*                                                                         *)
(* Vec indices are 1-based here (Rust: 0-based).  A u32 is modelled with    *)
(* Width bits instead of 32: every arithmetic operation of the source is    *)
(* kept, with its wrap (release build) or its panic (debug build, where     *)
(* overflow checks are compiled in).                                        *)
(***************************************************************************)
EXTENDS Integers, Sequences, FiniteSets, TLC

VARIABLES
    \* the build: TRUE when arithmetic overflow checks are compiled in
    overflow_checks,
    \* ---- DirectoryIndex::size_distance / matches_size ----
    dir,            \* the DirectoryIndex (self)
    icon_size,      \* requested size
    icon_scale,     \* requested scale
    distance,       \* outcome of size_distance
    matches,        \* outcome of matches_size
    \* ---- Theme::find_icon_here ----
    info,           \* the theme's ThemeInfo: base_dirs and index.directories
    files,          \* the filesystem: the set of paths that exist
    icon_name,      \* requested icon name
    found,          \* outcome of find_icon_here
    \* ---- IconLocations::resolve_only ----
    disk,               \* per theme name, what the search directories hold
    inherits,           \* per theme name, the Inherits list of its index.theme
    requested,          \* the theme_names argument
    pc,                 \* the part of resolve_only that runs
    req_i,              \* position of the loop over the requested names
    themes,             \* HashMap<name, Option<ThemeDescriptor>>
    stack,              \* the collect_themes calls in progress
    parsed,             \* the names theme_description was called for, in order
    theme_names,        \* names of the surviving themes, by index
    theme_descriptions, \* their descriptors, by index; None once taken
    hicolor_idx,        \* Option: index of hicolor
    theme_chains,       \* the chains computed so far
    chain,              \* the chain under construction
    cursor,             \* the BFS cursor into chain
    full_themes,        \* Option<Arc<Theme>> per index
    chain_i,            \* the chain the build loop is at
    rev_pos,            \* position of the reverse iteration in that chain
    \* ---- Icons ----
    standalone_icons,   \* IconLocations.standalone_icons
    icons,              \* the Icons value: standalone_icons and themes
    theme_arg,          \* the theme argument of Icons::find_icon
    consulted,          \* the themes find_icon_here ran on, in order
    theme_found,        \* outcome of Theme::find_icon
    result,             \* outcome of Icons::find_icon
    \* ---- ThemeIndex::parse ----
    index_sections,     \* the sections of an index.theme after [Icon Theme]
    index_result,       \* outcome of ThemeIndex::parse: the directories or an error
    \* ---- IconFile::from_path ----
    file_path,          \* the path argument
    icon_file,          \* outcome of from_path
    \* ---- SearchDirectories::append ----
    dirs,               \* self.dirs
    directories,        \* the directories argument
    appended            \* outcome of append: the dirs of the value returned

size_vars == <<dir, distance, matches>>
lookup_vars == <<info, files, icon_name, found>>
input_vars == <<disk, inherits, requested>>
collect_vars == <<req_i, themes, stack, parsed>>
prune_vars == <<theme_names, theme_descriptions, hicolor_idx>>
chain_vars == <<theme_chains, chain, cursor>>
build_vars == <<full_themes, chain_i, rev_pos>>
\* what resolve_only leaves alone
icons_vars == <<icons, theme_arg, consulted, theme_found, result>>
parse_vars == <<index_sections, index_result>>
file_vars == <<file_path, icon_file>>
search_vars == <<dirs, directories, appended>>
unit_vars == <<parse_vars, file_vars, search_vars>>
resolve_frame == <<input_vars, overflow_checks, icon_size, icon_scale,
                   size_vars, lookup_vars, standalone_icons, icons_vars, unit_vars>>
resolve_vars == <<input_vars, pc, collect_vars, prune_vars, chain_vars, build_vars>>
vars == <<unit_vars, overflow_checks, icon_size, icon_scale, size_vars, lookup_vars, resolve_vars,
         standalone_icons, icons_vars>>

----------------------------------------------------------------------------
(* Bounds *)

\* number of bits of the modelled u32
Width == 4

Modulus == 2 ^ Width
\* u32::MAX
U32_MAX == Modulus - 1

----------------------------------------------------------------------------
(* u32 arithmetic.  An arithmetic outcome is [panic, val]: with overflow    *)
(* checks the operation panics when the exact result leaves 0..U32_MAX,     *)
(* without them it wraps modulo 2^Width.                                    *)

Val(v) == [panic |-> FALSE, val |-> v]
Panic == [panic |-> TRUE, val |-> 0]

Arith(exact, checks) ==
    IF exact \in 0..U32_MAX THEN Val(exact)
    ELSE IF checks THEN Panic
    ELSE Val(exact % Modulus)

u32_mul(a, b, checks) == Arith(a * b, checks)
u32_add(a, b, checks) == Arith(a + b, checks)
u32_sub(a, b, checks) == Arith(a - b, checks)
\* u32::abs_diff never overflows
abs_diff(a, b) == IF a >= b THEN a - b ELSE b - a

\* o1 then f(o1.val), a panic ending the computation
Then(o, f(_)) == IF o.panic THEN Panic ELSE f(o.val)

----------------------------------------------------------------------------
(* DirectoryIndex *)

DirectoryType == {"Fixed", "Scalable", "Threshold"}

\* `(self.size - self.threshold) * self.scale` in size_distance
threshold_lower(self, checks) ==
    Then(u32_sub(self.size, self.threshold, checks), LAMBDA d :
      u32_mul(d, self.scale, checks))

\* `(self.size + self.threshold) * self.scale` in size_distance
threshold_higher(self, checks) ==
    Then(u32_add(self.size, self.threshold, checks), LAMBDA s :
      u32_mul(s, self.scale, checks))

\* DirectoryIndex::size_distance
size_distance(self, isize, iscale, checks) ==
    Then(u32_mul(isize, iscale, checks), LAMBDA size :
      IF self.directory_type \in {"Fixed", "Scalable"}
      THEN Then(u32_mul(self.size, self.scale, checks), LAMBDA own :
             Val(abs_diff(own, size)))
      ELSE
        Then(threshold_lower(self, checks), LAMBDA lower :
        Then(threshold_higher(self, checks), LAMBDA higher :
          IF size < lower
          THEN Then(u32_mul(self.min_size, self.scale, checks), LAMBDA m :
                 Val(abs_diff(size, m)))
          ELSE IF size > higher
          THEN Then(u32_mul(self.max_size, self.scale, checks), LAMBDA m :
                 Val(abs_diff(size, m)))
          ELSE Val(0))))

\* DirectoryIndex::matches_size
matches_size(self, isize, iscale) ==
    IF self.scale # iscale THEN FALSE
    ELSE CASE self.directory_type = "Fixed" -> self.size = isize
           [] self.directory_type = "Scalable" ->
                 self.min_size <= isize /\ isize <= self.max_size
           [] self.directory_type = "Threshold" ->
                 abs_diff(self.size, isize) <= self.threshold

----------------------------------------------------------------------------
(* IconFile *)

None == <<>>
Some(x) == <<x>>

\* the elements of a sequence
Range(q) == { q[i] : i \in DOMAIN q }

\* ASCII lower-casing of the extensions that occur, for eq_ignore_ascii_case
AsciiLower(ext) ==
    CASE ext = "PNG" -> "png"
      [] ext = "XPM" -> "xpm"
      [] ext = "XMP" -> "xmp"
      [] ext = "SVG" -> "svg"
      [] ext = "Png" -> "png"
      [] ext = "Xpm" -> "xpm"
      [] ext = "Svg" -> "svg"
      [] OTHER -> ext

\* FileType::from_path_ext: None for an unrecognised extension ("" is a path
\* without extension)
from_path_ext(path) ==
    IF path.ext = "" THEN None
    ELSE IF AsciiLower(path.ext) = "png" THEN Some("Png")
    ELSE IF AsciiLower(path.ext) = "xmp" THEN Some("Xmp")
    ELSE IF AsciiLower(path.ext) = "svg" THEN Some("Svg")
    ELSE None

\* IconFile::from_path
from_path(path) ==
    IF from_path_ext(path) = None THEN None
    ELSE Some([path |-> path, file_type |-> from_path_ext(path)[1],
               name |-> path.stem])

----------------------------------------------------------------------------
(* Theme::find_icon_here *)

\* const EXTENSIONS in find_icon_here
EXTENSIONS == <<"png", "xmp", "svg">>

\* base_dir.join(sub_dir.directory_name).join(format!("{icon_name}.{ext}"))
JoinPath(base_dir, sub_dir, name, ext) ==
    [base |-> base_dir, dir |-> sub_dir.directory_name, stem |-> name, ext |-> ext]

\* a lookup outcome: the call panics, or returns an Option<IconFile>
Ret(opt) == [panic |-> FALSE, ret |-> opt]
Unwind == [panic |-> TRUE, ret |-> None]

\* the (base_dir, sub_dir) pairs in the order of the nested for loops
RECURSIVE Pairs(_, _, _, _)
Pairs(base_dirs, sub_dirs, b, d) ==
    IF b > Len(base_dirs) THEN <<>>
    ELSE IF d > Len(sub_dirs) THEN Pairs(base_dirs, sub_dirs, b + 1, 1)
    ELSE <<[base |-> base_dirs[b], sub_dir |-> sub_dirs[d]]>>
         \o Pairs(base_dirs, sub_dirs, b, d + 1)

\* the innermost loop of the exact-match pass: the first candidate file name
\* that exists and that from_path accepts
RECURSIVE ExactInDir(_, _, _, _)
ExactInDir(pair, fs, name, e) ==
    IF e > Len(EXTENSIONS) THEN None
    ELSE LET path == JoinPath(pair.base, pair.sub_dir, name, EXTENSIONS[e])
         IN  IF path \in fs /\ from_path(path) # None THEN from_path(path)
             ELSE ExactInDir(pair, fs, name, e + 1)

\* the exact-match pass: Some(file) when it returns, None when it falls through
RECURSIVE ExactPass(_, _, _, _)
ExactPass(pairs, fs, name, i) ==
    IF i > Len(pairs) THEN None
    ELSE IF ExactInDir(pairs[i], fs, name, 1) # None
         THEN ExactInDir(pairs[i], fs, name, 1)
         ELSE ExactPass(pairs, fs, name, i + 1)

\* the innermost loop of the nearest-match pass: every candidate that exists
\* overwrites min_dist and best_icon
RECURSIVE NearestInDir(_, _, _, _, _, _)
NearestInDir(pair, fs, name, dist, acc, e) ==
    IF e > Len(EXTENSIONS) THEN acc
    ELSE LET path == JoinPath(pair.base, pair.sub_dir, name, EXTENSIONS[e])
         IN  IF path \in fs /\ from_path(path) # None
             THEN NearestInDir(pair, fs, name, dist,
                               [min_dist |-> dist, best_icon |-> from_path(path)],
                               e + 1)
             ELSE NearestInDir(pair, fs, name, dist, acc, e + 1)

\* the nearest-match pass
RECURSIVE NearestPass(_, _, _, _, _, _, _, _)
NearestPass(pairs, fs, name, isize, iscale, checks, acc, i) ==
    IF i > Len(pairs) THEN Ret(acc.best_icon)
    ELSE LET d == size_distance(pairs[i].sub_dir, isize, iscale, checks)
         IN  IF d.panic THEN Unwind
             ELSE IF d.val < acc.min_dist
             THEN NearestPass(pairs, fs, name, isize, iscale, checks,
                              NearestInDir(pairs[i], fs, name, d.val, acc, 1),
                              i + 1)
             ELSE NearestPass(pairs, fs, name, isize, iscale, checks, acc, i + 1)

\* faulty variant of exact_sub_dirs: the filter on matches_size is left out
all_sub_dirs(self, isize, iscale) == self.directories

\* the sub_dirs of the theme that match the requested size exactly
exact_sub_dirs(self, isize, iscale) ==
    SelectSeq(self.directories, LAMBDA sub_dir : matches_size(sub_dir, isize, iscale))

\* Theme::find_icon_here
find_icon_here(self, fs, name, isize, iscale, checks) ==
    LET exact == ExactPass(Pairs(self.base_dirs, exact_sub_dirs(self, isize, iscale), 1, 1),
                           fs, name, 1)
    IN  IF exact # None THEN Ret(exact)
        ELSE NearestPass(Pairs(self.base_dirs, self.directories, 1, 1),
                         fs, name, isize, iscale, checks,
                         [min_dist |-> U32_MAX, best_icon |-> None], 1)

----------------------------------------------------------------------------
(* The directories that occur in the index.theme files *)

Dir2x2 ==
    [directory_name |-> "2x2", directory_type |-> "Fixed", size |-> 2,
     scale |-> 1, threshold |-> 2, min_size |-> 2, max_size |-> 2]
Dir0x0 ==
    [directory_name |-> "0x0", directory_type |-> "Fixed", size |-> 0,
     scale |-> 1, threshold |-> 2, min_size |-> 0, max_size |-> 0]
Dir1x1 ==
    [directory_name |-> "1x1", directory_type |-> "Threshold", size |-> 1,
     scale |-> 1, threshold |-> 2, min_size |-> 1, max_size |-> 1]
DirScalable ==
    [directory_name |-> "scalable@2", directory_type |-> "Scalable", size |-> 2,
     scale |-> 2, threshold |-> 2, min_size |-> 1, max_size |-> 8]
DirCatalogue == {Dir2x2, Dir0x0, Dir1x1, DirScalable}

----------------------------------------------------------------------------
(* IconLocations::resolve_only *)

\* the theme names that occur
Names == {"a", "b", "hicolor"}

\* what the search directories hold for a theme name: no folder of that name,
\* folders without index.theme, an index.theme that fails to parse, or a
\* valid index.theme
DiskStates == {"absent", "no_index", "bad_index", "ok"}

\* the folders of a theme: one per search directory that holds it
ThemeBaseDirs(name) == << <<"usr", name>> >>

\* the directories of a theme's index.theme
ThemeDirectories(name) ==
    IF name = "b" THEN <<Dir2x2, Dir1x1>> ELSE <<Dir2x2>>

\* faulty variant of theme_description: an index.theme that fails to parse
\* yields a descriptor
theme_description_lenient(name, dsk, inh) ==
    IF dsk[name] \in {"ok", "bad_index"}
    THEN Some([internal_name |-> name, base_dirs |-> ThemeBaseDirs(name),
               inherits |-> inh[name], directories |-> ThemeDirectories(name)])
    ELSE None

\* IconLocations::theme_description: Some(descriptor) for Ok, None for Err
theme_description(name, dsk, inh) ==
    IF dsk[name] = "ok"
    THEN Some([internal_name |-> name, base_dirs |-> ThemeBaseDirs(name),
               inherits |-> inh[name], directories |-> ThemeDirectories(name)])
    ELSE None

\* HashMap::insert on a map held as a function
MapInsert(map, key, value) ==
    [k \in DOMAIN map \cup {key} |-> IF k = key THEN value ELSE map[k]]

EmptyMap == [k \in {} |-> None]

\* theme_names.iter().position(|name| name == wanted)
Position(names, wanted) ==
    IF \E i \in DOMAIN names : names[i] = wanted
    THEN Some(CHOOSE i \in DOMAIN names :
                 names[i] = wanted /\ \A j \in 1..(i - 1) : names[j] # wanted)
    ELSE None

Contains(q, x) == \E i \in DOMAIN q : q[i] = x

\* faulty variant of PushParents: the Inherits list is walked from its end
RECURSIVE PushParentsReversed(_, _, _, _)
PushParentsReversed(ch, parents, names, p) ==
    IF p > Len(parents) THEN ch
    ELSE LET parent_idx == Position(names, parents[Len(parents) + 1 - p])
         IN  IF parent_idx # None /\ ~Contains(ch, parent_idx[1])
             THEN PushParentsReversed(Append(ch, parent_idx[1]), parents, names, p + 1)
             ELSE PushParentsReversed(ch, parents, names, p + 1)

\* faulty variant of PushParents: a parent is pushed whether or not the chain
\* holds it
RECURSIVE PushParentsUnchecked(_, _, _, _)
PushParentsUnchecked(ch, parents, names, p) ==
    IF p > Len(parents) THEN ch
    ELSE LET parent_idx == Position(names, parents[p])
         IN  IF parent_idx # None
             THEN PushParentsUnchecked(Append(ch, parent_idx[1]), parents, names, p + 1)
             ELSE PushParentsUnchecked(ch, parents, names, p + 1)

\* `for parent in &description.index.inherits` of the BFS: push every parent
\* that resolves to an index and is not yet in the chain
RECURSIVE PushParents(_, _, _, _)
PushParents(ch, parents, names, p) ==
    IF p > Len(parents) THEN ch
    ELSE LET parent_idx == Position(names, parents[p])
         IN  IF parent_idx # None /\ ~Contains(ch, parent_idx[1])
             THEN PushParents(Append(ch, parent_idx[1]), parents, names, p + 1)
             ELSE PushParents(ch, parents, names, p + 1)

\* faulty variant of PushHicolor: hicolor is pushed without looking for it
PushHicolorUnchecked(ch, hidx) ==
    IF hidx # None THEN Append(ch, hidx[1]) ELSE ch

\* faulty variant of PushHicolor: hicolor is never added
PushHicolorNever(ch, hidx) == ch

\* the hicolor step that ends a chain
PushHicolor(ch, hidx) ==
    IF hidx # None /\ ~Contains(ch, hidx[1]) THEN Append(ch, hidx[1]) ELSE ch

\* the parents of a theme under construction: None when one of them has no
\* built Theme yet (the unwrap panics)
ParentsOf(ch, full) ==
    IF \E k \in 2..Len(ch) : full[ch[k]] = None
    THEN None
    ELSE Some([k \in 1..(Len(ch) - 1) |-> ch[k + 1]])

----------------------------------------------------------------------------
(* Theme::find_icon, Icons::find_icon *)

\* An Arc<Theme> is held as the theme's internal name, a Theme as
\* [info, inherits_from]; `ts` maps the names to the Theme values.

\* a traversal outcome: the lookup outcome and the themes consulted so far
Trav(out, seen) == [out |-> out, consulted |-> seen]

\* `self.inherits_from.iter().find_map(|theme| theme.find_icon_here(..))`
RECURSIVE find_map(_, _, _, _, _, _, _, _, _)
find_map(ts, parents, k, fs, name, isize, iscale, checks, seen) ==
    IF k > Len(parents) THEN Trav(Ret(None), seen)
    ELSE LET here == find_icon_here(ts[parents[k]].info, fs, name, isize, iscale, checks)
         IN  IF here.panic \/ here.ret # None
             THEN Trav(here, Append(seen, parents[k]))
             ELSE find_map(ts, parents, k + 1, fs, name, isize, iscale, checks,
                           Append(seen, parents[k]))

\* faulty variant of Theme_find_icon: the parents are asked before the theme itself
Theme_find_icon_parents_first(ts, self, fs, name, isize, iscale, checks) ==
    LET up == find_map(ts, ts[self].inherits_from, 1, fs, name, isize, iscale,
                       checks, <<>>)
    IN  IF up.out.panic \/ up.out.ret # None THEN up
        ELSE Trav(find_icon_here(ts[self].info, fs, name, isize, iscale, checks),
                  Append(up.consulted, self))

\* Theme::find_icon
Theme_find_icon(ts, self, fs, name, isize, iscale, checks) ==
    LET here == find_icon_here(ts[self].info, fs, name, isize, iscale, checks)
    IN  IF here.panic \/ here.ret # None
        THEN Trav(here, <<self>>)
        ELSE find_map(ts, ts[self].inherits_from, 1, fs, name, isize, iscale,
                      checks, <<self>>)

\* Icons::theme
Icons_theme(self, theme_name) ==
    IF theme_name \in DOMAIN self.themes THEN Some(theme_name) ELSE None

\* Icons::find_standalone_icon
find_standalone_icon(self, name) ==
    LET hits == SelectSeq(self.standalone_icons, LAMBDA ico : ico.path.stem = name)
    IN  IF hits = <<>> THEN None ELSE Some(hits[1])

\* Icons::find_icon: [theme: the outcome of Theme::find_icon, None when it was
\* not called; out: the outcome of the call]
Icons_find_icon(self, fs, name, isize, iscale, theme, checks) ==
    LET chosen == IF Icons_theme(self, theme) # None THEN Icons_theme(self, theme)
                  ELSE Icons_theme(self, "hicolor")
    IN  IF chosen = None
        THEN [theme |-> None, out |-> Ret(None)]
        ELSE LET t == Theme_find_icon(self.themes, chosen[1], fs, name, isize,
                                      iscale, checks)
             IN  [theme |-> Some(t),
                  out |-> IF t.out.panic \/ t.out.ret # None THEN t.out
                          ELSE Ret(find_standalone_icon(self, name))]

\* the standalone icons of a base directory listing: the files from_path
\* accepts
RECURSIVE standalone_of(_)
standalone_of(listing) ==
    IF listing = <<>> THEN <<>>
    ELSE from_path(listing[1]) \o standalone_of(Tail(listing))

\* the Icons value made of the resolved themes and the standalone icons
IconsOf(names, full, standalone) ==
    [standalone_icons |-> standalone,
     themes |-> [n \in Range(names) |->
                   LET t == full[Position(names, n)[1]][1]
                   IN  [info |-> t.description,
                        inherits_from |-> [k \in DOMAIN t.parents |-> names[t.parents[k]]]]]]

----------------------------------------------------------------------------
(* ThemeIndex::parse, DirectoryIndex::parse *)

\* Result<T, ThemeParseError>
Ok(v) == [ok |-> TRUE, val |-> v]
Err(e) == [ok |-> FALSE, err |-> e]

\* A section is [title, attrs]: attrs maps the names of the attributes
\* present to their values.  The values of the numeric attributes are
\* sequences of characters, those of Type and Context strings; all values are
\* taken to be UTF-8.

\* find_attr: the value of the attribute, when present
find_attr(section, name) ==
    IF name \in DOMAIN section.attrs THEN Some(section.attrs[name]) ELSE None

\* the value of a decimal digit, -1 for any other character
DigitValue(ch) ==
    CASE ch = "0" -> 0 [] ch = "1" -> 1 [] ch = "2" -> 2 [] ch = "3" -> 3
      [] ch = "4" -> 4 [] ch = "5" -> 5 [] ch = "6" -> 6 [] ch = "7" -> 7
      [] ch = "8" -> 8 [] ch = "9" -> 9 [] OTHER -> -1

\* the digit loop of u32::from_str: checked multiply and add
RECURSIVE parse_digits(_, _, _)
parse_digits(text, k, acc) ==
    IF k > Len(text) THEN Ok(acc)
    ELSE LET digit == DigitValue(text[k])
         IN  IF digit < 0 \/ acc * 10 + digit > U32_MAX
             THEN Err("ParseNumError")
             ELSE parse_digits(text, k + 1, acc * 10 + digit)

\* str::parse::<u32>: an optional `+`, then at least one digit, no overflow
parse_u32(text) ==
    LET digits == IF text # <<>> /\ text[1] = "+" THEN Tail(text) ELSE text
    IN  IF digits = <<>> THEN Err("ParseNumError") ELSE parse_digits(digits, 1, 0)

\* `find_attr(..)?.map(|s| s.parse()).transpose()?.unwrap_or(default)`
parse_or(section, name, default) ==
    IF find_attr(section, name) = None THEN Ok(default)
    ELSE parse_u32(find_attr(section, name)[1])

\* DirectoryType::try_from
DirectoryType_try_from(value) ==
    CASE value = "Fixed" -> Ok("Fixed")
      [] value = "Scalable" -> Ok("Scalable")
      [] value = "Threshold" -> Ok("Threshold")
      [] OTHER -> Err("InvalidDirectoryType")

\* the Type attribute of DirectoryIndex::parse: Threshold when absent
parse_directory_type(section) ==
    IF find_attr(section, "Type") = None THEN Ok("Threshold")
    ELSE DirectoryType_try_from(find_attr(section, "Type")[1])

\* DirectoryIndex::parse; the first attribute that fails gives the error
DirectoryIndex_parse(section) ==
    LET size == IF find_attr(section, "Size") = None
                THEN Err("MissingRequiredAttribute")
                ELSE parse_u32(find_attr(section, "Size")[1])
        scale == parse_or(section, "Scale", 1)
        directory_type == parse_directory_type(section)
        max_size == parse_or(section, "MaxSize", size.val)
        min_size == parse_or(section, "MinSize", size.val)
        threshold == parse_or(section, "Threshold", 2)
    IN  IF ~size.ok THEN size
        ELSE IF ~scale.ok THEN scale
        ELSE IF ~directory_type.ok THEN directory_type
        ELSE IF ~max_size.ok THEN max_size
        ELSE IF ~min_size.ok THEN min_size
        ELSE IF ~threshold.ok THEN threshold
        ELSE Ok([directory_name |-> section.title,
                 is_scaled_dir |-> scale.val # 1,
                 size |-> size.val,
                 scale |-> scale.val,
                 context |-> find_attr(section, "Context"),
                 directory_type |-> directory_type.val,
                 max_size |-> max_size.val,
                 min_size |-> min_size.val,
                 threshold |-> threshold.val])

\* the sections of ThemeIndex::parse that describe a directory: a section
\* that is listed neither in Directories nor in ScaledDirectories is ignored;
\* the first section that fails to parse fails the theme
RECURSIVE parse_directories(_, _, _, _)
parse_directories(sections, listed, scaled, k) ==
    IF k > Len(sections) THEN Ok(<<>>)
    ELSE LET title == sections[k].title
             is_scaled_dir == scaled # None /\ Contains(scaled[1], title)
             rest == parse_directories(sections, listed, scaled, k + 1)
             index == DirectoryIndex_parse(sections[k])
         IN  IF ~Contains(listed, title) /\ ~is_scaled_dir THEN rest
             ELSE IF ~index.ok THEN index
             ELSE IF ~rest.ok THEN rest
             ELSE Ok(<< IF is_scaled_dir
                        THEN [index.val EXCEPT !.is_scaled_dir = TRUE]
                        ELSE index.val >> \o rest.val)

----------------------------------------------------------------------------
(* SearchDirectories *)

\* `From<I> for SearchDirectories`: the paths of the iterator, in order
SearchDirectories_from(value) == [dirs |-> value]

\* Vec::append: moves all the elements of other into self, leaving other
\* empty
Vec_append(self, other) == [self |-> self \o other, other |-> <<>>]

\* SearchDirectories::append
append(self_dirs, directories_arg) ==
    LET extra_dirs == directories_arg
        moved == Vec_append(self_dirs, extra_dirs)
    IN  SearchDirectories_from(moved.other)

----------------------------------------------------------------------------
(* Values of the variables a specification does not use *)

NotCalled == [called |-> FALSE, panic |-> FALSE, val |-> 0]
Returned(o) == [called |-> TRUE, panic |-> o.panic, val |-> o.val]

NoResult == [called |-> FALSE, panic |-> FALSE, ret |-> None]
NoInfo == [base_dirs |-> <<>>, directories |-> <<>>]

LookupIdle ==
    /\ info = NoInfo
    /\ files = {}
    /\ icon_name = ""
    /\ found = NoResult

SizeIdle ==
    /\ dir = [directory_type |-> "Fixed", size |-> 0, scale |-> 0,
              threshold |-> 0, min_size |-> 0, max_size |-> 0]
    /\ distance = NotCalled
    /\ matches = NotCalled

NoIcons == [standalone_icons |-> <<>>, themes |-> EmptyMap]

IconsIdle ==
    /\ icons = NoIcons
    /\ theme_arg = ""
    /\ consulted = <<>>
    /\ theme_found = NoResult
    /\ result = NoResult

ParseIdle ==
    /\ index_sections = <<>>
    /\ index_result = NoResult

FileIdle ==
    /\ file_path = <<>>
    /\ icon_file = NoResult

SearchIdle ==
    /\ dirs = <<>>
    /\ directories = <<>>
    /\ appended = [called |-> FALSE, dirs |-> <<>>]

UnitIdle == ParseIdle /\ FileIdle /\ SearchIdle

ResolveIdle ==
    /\ disk = [n \in Names |-> "absent"]
    /\ inherits = [n \in Names |-> <<>>]
    /\ requested = <<>>
    /\ pc = "idle"
    /\ req_i = 0
    /\ themes = EmptyMap
    /\ parsed = <<>>
    /\ stack = <<>>
    /\ theme_names = <<>>
    /\ theme_descriptions = <<>>
    /\ hicolor_idx = None
    /\ theme_chains = <<>>
    /\ chain = <<>>
    /\ cursor = 0
    /\ full_themes = <<>>
    /\ chain_i = 0
    /\ rev_pos = 0

----------------------------------------------------------------------------
(* Specification SpecLookup: find_icon_here on one theme                    *)

\* largest number of directories of the theme
MaxDirs == 2
\* largest number of files on disk
MaxFiles == 2

\* sequences of at most n distinct elements of S
DistinctSeqs(S, n) ==
    UNION { { q \in [1..k -> S] : \A i, j \in 1..k : q[i] = q[j] => i = j } : k \in 0..n }

\* sequences over S of length at most n
BoundedSeqs(S, n) == UNION { [1..k -> S] : k \in 0..n }

\* the subsets of S of at most n elements
SubsetsUpTo(S, n) == { Range(q) : q \in BoundedSeqs(S, n) }

\* the extensions of the files on disk
DiskExts == {"png", "xpm", "xmp", "svg"}
\* the theme's base directories
BaseDirs == <<"home", "usr">>
\* the (size, scale) requests
Requests == { <<2, 1>>, <<1, 2>>, <<U32_MAX, 1>>, <<U32_MAX, 2>> }

LookupInit ==
    /\ \E ds \in DistinctSeqs(DirCatalogue, MaxDirs) :
          /\ info = [base_dirs |-> BaseDirs, directories |-> ds]
          /\ files \in SubsetsUpTo({ JoinPath(b, d, "foo", e) :
                                        b \in Range(BaseDirs), d \in Range(ds),
                                        e \in DiskExts }, MaxFiles)
    /\ icon_name = ""
    /\ icon_size = 0
    /\ icon_scale = 0
    /\ overflow_checks \in BOOLEAN
    /\ found = NoResult
    /\ SizeIdle
    /\ ResolveIdle
    /\ standalone_icons = <<>>
    /\ IconsIdle
    /\ UnitIdle

\* a call self.find_icon_here("foo", size, scale)
FindIconHereCall ==
    /\ ~found.called
    /\ info # NoInfo
    /\ \E r \in Requests :
          /\ icon_name' = "foo"
          /\ icon_size' = r[1]
          /\ icon_scale' = r[2]
          /\ \E o \in {find_icon_here(info, files, "foo", r[1], r[2], overflow_checks)} :
                found' = [called |-> TRUE, panic |-> o.panic, ret |-> o.ret]
    /\ UNCHANGED <<unit_vars, overflow_checks, size_vars, info, files, resolve_vars,
                   standalone_icons, icons_vars>>

LookupNext == FindIconHereCall

SpecLookup == LookupInit /\ [][LookupNext]_vars

----------------------------------------------------------------------------
(* Specification SpecSize: size_distance and matches_size on one directory  *)

\* u32 values the fields and the request are drawn from
U32Samples == {0, 1, 2, 3, U32_MAX \div 2, U32_MAX - 1, U32_MAX}
ScaleSamples == {1, 2, U32_MAX}

SizeInit ==
    /\ overflow_checks \in BOOLEAN
    /\ \E t \in DirectoryType, sz \in U32Samples, sc \in ScaleSamples,
          th \in U32Samples :
        \E mn \in {0, sz}, mx \in {sz, U32_MAX} :
          dir = [directory_type |-> t, size |-> sz, scale |-> sc,
                 threshold |-> th, min_size |-> mn, max_size |-> mx]
    /\ icon_size \in U32Samples
    /\ icon_scale \in ScaleSamples
    /\ distance = NotCalled
    /\ matches = NotCalled
    /\ LookupIdle
    /\ ResolveIdle
    /\ standalone_icons = <<>>
    /\ IconsIdle
    /\ UnitIdle

SizeDistanceCall ==
    /\ ~distance.called
    /\ distance' = Returned(size_distance(dir, icon_size, icon_scale, overflow_checks))
    /\ UNCHANGED <<unit_vars, overflow_checks, dir, icon_size, icon_scale, matches, lookup_vars, resolve_vars,
                   standalone_icons, icons_vars>>

MatchesSizeCall ==
    /\ ~matches.called
    /\ matches' = Returned(Val(IF matches_size(dir, icon_size, icon_scale) THEN 1 ELSE 0))
    /\ UNCHANGED <<unit_vars, overflow_checks, dir, icon_size, icon_scale, distance, lookup_vars, resolve_vars,
                   standalone_icons, icons_vars>>

SizeNext == SizeDistanceCall \/ MatchesSizeCall

SpecSize == SizeInit /\ [][SizeNext]_vars

----------------------------------------------------------------------------
(* Specification Spec: resolve_only, statement by statement                 *)

\* largest number of Inherits entries over all index.theme files
MaxEdges == 3

\* the Inherits list of a theme: empty unless its index.theme parses
InheritsChoices(state, budget) ==
    IF state = "ok" THEN BoundedSeqs(Names, budget) ELSE {<<>>}

Init ==
    /\ disk \in [Names -> DiskStates]
    /\ \E la \in InheritsChoices(disk["a"], MaxEdges) :
       \E lb \in InheritsChoices(disk["b"], MaxEdges - Len(la)) :
       \E lh \in InheritsChoices(disk["hicolor"], MaxEdges - Len(la) - Len(lb)) :
          inherits = [n \in Names |-> CASE n = "a" -> la [] n = "b" -> lb [] OTHER -> lh]
    /\ requested \in DistinctSeqs({"a", "b"}, 2)
    /\ pc = "collect"
    /\ req_i = 1
    /\ themes = EmptyMap
    /\ parsed = <<>>
    /\ stack = <<>>
    /\ theme_names = <<>>
    /\ theme_descriptions = <<>>
    /\ hicolor_idx = None
    /\ theme_chains = <<>>
    /\ chain = <<>>
    /\ cursor = 0
    /\ full_themes = <<>>
    /\ chain_i = 0
    /\ rev_pos = 0
    /\ overflow_checks = FALSE
    /\ icon_size = 0
    /\ icon_scale = 0
    /\ SizeIdle
    /\ LookupIdle
    /\ standalone_icons = <<>>
    /\ IconsIdle
    /\ UnitIdle

\* entry of collect_themes(name): return at once for a name already in the
\* map; else record its descriptor and, when there is one, start the loop
\* over its parents
CollectEnter(name, frames) ==
    IF name \in DOMAIN themes
    THEN /\ themes' = themes
         /\ parsed' = parsed
         /\ stack' = frames
    ELSE LET descriptor == theme_description(name, disk, inherits)
         IN  /\ themes' = MapInsert(themes, name, descriptor)
             /\ parsed' = Append(parsed, name)
             /\ stack' = IF descriptor = None THEN frames
                         ELSE Append(frames, [parents |-> descriptor[1].inherits,
                                              next |-> 1])

\* `for theme_name in theme_names { collect_themes(theme_name, ..) }`
CollectRequested ==
    /\ pc = "collect" /\ stack = <<>> /\ req_i <= Len(requested)
    /\ CollectEnter(requested[req_i], <<>>)
    /\ req_i' = req_i + 1
    /\ UNCHANGED <<resolve_frame, pc, prune_vars, chain_vars, build_vars>>

\* `collect_themes("hicolor", ..)`
CollectHicolor ==
    /\ pc = "collect" /\ stack = <<>> /\ req_i = Len(requested) + 1
    /\ CollectEnter("hicolor", <<>>)
    /\ req_i' = req_i + 1
    /\ UNCHANGED <<resolve_frame, pc, prune_vars, chain_vars, build_vars>>

\* one iteration of `for parent in parents { collect_themes(parent, ..) }` of
\* the innermost call, or its return when the loop is over
CollectParent ==
    /\ pc = "collect" /\ stack # <<>>
    /\ LET top == stack[Len(stack)]
           below == SubSeq(stack, 1, Len(stack) - 1)
       IN  IF top.next > Len(top.parents)
           THEN /\ stack' = below
                /\ themes' = themes
                /\ parsed' = parsed
           ELSE CollectEnter(top.parents[top.next],
                             Append(below, [top EXCEPT !.next = top.next + 1]))
    /\ UNCHANGED <<resolve_frame, pc, req_i, prune_vars, chain_vars, build_vars>>

\* the themes that have a descriptor, unzipped into names and descriptions in
\* the order the HashMap yields them, and the position of hicolor
Prune ==
    /\ pc = "collect" /\ stack = <<>> /\ req_i = Len(requested) + 2
    /\ LET surviving == { n \in DOMAIN themes : themes[n] # None }
       IN  \E order \in { q \in [1..Cardinality(surviving) -> surviving] :
                            \A i, j \in DOMAIN q : q[i] = q[j] => i = j } :
              /\ theme_names' = order
              /\ theme_descriptions' = [i \in DOMAIN order |-> themes[order[i]]]
              /\ hicolor_idx' = Position(order, "hicolor")
    /\ pc' = "chains"
    /\ UNCHANGED <<resolve_frame, req_i, themes, stack, parsed, chain_vars, build_vars>>

\* `let mut chain = Vec::from([theme_idx]); let mut cursor = 0;`
ChainStart ==
    /\ pc = "chains" /\ chain = <<>>
    /\ Len(theme_chains) < Len(theme_names)
    /\ chain' = <<Len(theme_chains) + 1>>
    /\ cursor' = 1
    /\ UNCHANGED <<resolve_frame, pc, collect_vars, prune_vars, theme_chains, build_vars>>

\* one iteration of `while let Some(node_idx) = chain.get(cursor)`
ChainVisit ==
    /\ pc = "chains" /\ chain # <<>> /\ cursor <= Len(chain)
    /\ cursor' = cursor + 1
    /\ chain' = IF theme_descriptions[chain[cursor]] = None THEN chain
                ELSE PushParents(chain,
                                 theme_descriptions[chain[cursor]][1].inherits,
                                 theme_names, 1)
    /\ UNCHANGED <<resolve_frame, pc, collect_vars, prune_vars, theme_chains, build_vars>>

\* the loop is over: add hicolor, `theme_chains.push(chain)`
ChainEnd ==
    /\ pc = "chains" /\ chain # <<>> /\ cursor > Len(chain)
    /\ theme_chains' = Append(theme_chains, PushHicolor(chain, hicolor_idx))
    /\ chain' = <<>>
    /\ cursor' = 0
    /\ UNCHANGED <<resolve_frame, pc, collect_vars, prune_vars, build_vars>>

\* `let mut full_themes = vec![None; number_of_themes];`
BuildStart ==
    /\ pc = "chains" /\ chain = <<>>
    /\ Len(theme_chains) = Len(theme_names)
    /\ full_themes' = [i \in DOMAIN theme_names |-> None]
    /\ chain_i' = 1
    /\ rev_pos' = IF theme_chains = <<>> THEN 0 ELSE Len(theme_chains[1])
    /\ pc' = "build"
    /\ UNCHANGED <<resolve_frame, collect_vars, prune_vars, chain_vars>>

\* one iteration of `for theme_idx in chain.iter().copied().rev()`
BuildTheme ==
    /\ pc = "build" /\ chain_i <= Len(theme_chains)
    /\ LET theme_idx == theme_chains[chain_i][rev_pos]
           theme_desc == theme_descriptions[theme_idx]
           parents == ParentsOf(theme_chains[theme_idx], full_themes)
           advance ==
              IF rev_pos > 1
              THEN /\ rev_pos' = rev_pos - 1
                   /\ chain_i' = chain_i
              ELSE /\ chain_i' = chain_i + 1
                   /\ rev_pos' = IF chain_i < Len(theme_chains)
                                 THEN Len(theme_chains[chain_i + 1]) ELSE 0
       IN  IF theme_desc = None
           THEN \* processed already
                /\ advance
                /\ UNCHANGED <<resolve_frame, pc, theme_descriptions, full_themes>>
           ELSE IF parents = None
           THEN \* unwrap on a parent that has no Theme yet
                /\ pc' = "panic"
                /\ theme_descriptions' = [theme_descriptions EXCEPT ![theme_idx] = None]
                /\ UNCHANGED <<resolve_frame, full_themes, chain_i, rev_pos>>
           ELSE /\ advance
                /\ theme_descriptions' = [theme_descriptions EXCEPT ![theme_idx] = None]
                /\ full_themes' = [full_themes EXCEPT ![theme_idx] =
                                      Some([description |-> theme_desc[1],
                                            parents |-> parents[1]])]
                /\ pc' = pc
    /\ UNCHANGED <<resolve_frame, collect_vars, theme_names, hicolor_idx, chain_vars>>

\* `full_themes.into_iter().map(Option::unwrap).collect()`
Finish ==
    /\ pc = "build" /\ chain_i > Len(theme_chains)
    /\ pc' = IF \E i \in DOMAIN full_themes : full_themes[i] = None
             THEN "panic" ELSE "done"
    /\ UNCHANGED <<resolve_frame, collect_vars, prune_vars, chain_vars, build_vars>>

Next ==
    \/ CollectRequested
    \/ CollectHicolor
    \/ CollectParent
    \/ Prune
    \/ ChainStart
    \/ ChainVisit
    \/ ChainEnd
    \/ BuildStart
    \/ BuildTheme
    \/ Finish

Spec == Init /\ [][Next]_vars

----------------------------------------------------------------------------
(* Specification SpecChains: resolve_only on four themes, one requested     *)

\* the theme names on disk
ChainNames == Names \cup {"c"}

\* largest number of Inherits entries over all index.theme files
MaxChainEdges == 3

ChainsInit ==
    /\ disk \in { f \in [ChainNames -> {"ok", "bad_index"}] :
                    f["a"] = "ok" /\ f["b"] = "ok" /\ f["hicolor"] = "ok" }
    /\ \E la \in BoundedSeqs(ChainNames, MaxChainEdges) :
       \E lb \in BoundedSeqs(ChainNames, MaxChainEdges - Len(la)) :
       \E lc \in IF disk["c"] = "ok"
                 THEN BoundedSeqs(ChainNames, MaxChainEdges - Len(la) - Len(lb))
                 ELSE {<<>>} :
          inherits = [n \in ChainNames |->
                         CASE n = "a" -> la [] n = "b" -> lb [] n = "c" -> lc
                           [] OTHER -> <<>>]
    /\ requested = <<"a">>
    /\ pc = "collect"
    /\ req_i = 1
    /\ themes = EmptyMap
    /\ parsed = <<>>
    /\ stack = <<>>
    /\ theme_names = <<>>
    /\ theme_descriptions = <<>>
    /\ hicolor_idx = None
    /\ theme_chains = <<>>
    /\ chain = <<>>
    /\ cursor = 0
    /\ full_themes = <<>>
    /\ chain_i = 0
    /\ rev_pos = 0
    /\ overflow_checks = FALSE
    /\ icon_size = 0
    /\ icon_scale = 0
    /\ SizeIdle
    /\ LookupIdle
    /\ standalone_icons = <<>>
    /\ IconsIdle
    /\ UnitIdle

SpecChains == ChainsInit /\ [][Next]_vars

----------------------------------------------------------------------------
(* Specification SpecIcons: resolve, then one Icons::find_icon              *)

\* the Inherits lists of the themes
IconsInherits == BoundedSeqs(Names, 1) \cup {<<"b", "hicolor">>, <<"hicolor", "b">>}

\* a file at the top level of a base directory
Pixmap(stem, ext) == [base |-> "pixmaps", dir |-> "", stem |-> stem, ext |-> ext]

\* the listings of the top level of the base directories
Listings ==
    { <<>>,
      <<Pixmap("foo", "svg"), Pixmap("foo", "png")>>,
      <<Pixmap("bar", "png"), Pixmap("foo", "xpm"), Pixmap("foo", "")>> }

\* the icon files a theme folder may hold
ThemeFiles == { JoinPath(ThemeBaseDirs(n)[1], Dir2x2, "foo", "png") : n \in Names }

IconsInit ==
    /\ disk \in [Names -> {"absent", "ok"}]
    /\ inherits \in { f \in [Names -> IconsInherits] :
                        \A n \in Names : disk[n] # "ok" => f[n] = <<>> }
    /\ requested = SelectSeq(<<"a", "b", "hicolor">>, LAMBDA n : disk[n] # "absent")
    /\ \E listing \in Listings : standalone_icons = standalone_of(listing)
    /\ overflow_checks \in BOOLEAN
    /\ pc = "collect"
    /\ req_i = 1
    /\ themes = EmptyMap
    /\ parsed = <<>>
    /\ stack = <<>>
    /\ theme_names = <<>>
    /\ theme_descriptions = <<>>
    /\ hicolor_idx = None
    /\ theme_chains = <<>>
    /\ chain = <<>>
    /\ cursor = 0
    /\ full_themes = <<>>
    /\ chain_i = 0
    /\ rev_pos = 0
    /\ icon_size = 0
    /\ icon_scale = 0
    /\ SizeIdle
    /\ LookupIdle
    /\ IconsIdle
    /\ UnitIdle

\* the Icons value of the resolved themes
MakeIcons ==
    /\ pc = "done"
    /\ icons' = IconsOf(theme_names, full_themes, standalone_icons)
    /\ pc' = "icons"
    /\ UNCHANGED <<unit_vars, input_vars, collect_vars, prune_vars, chain_vars, build_vars,
                   overflow_checks, icon_size, icon_scale, size_vars, lookup_vars,
                   standalone_icons, theme_arg, consulted, theme_found, result>>

\* a call icons.find_icon("foo", 2, 1, theme) on the filesystem fs
IconsFindIcon ==
    /\ pc = "icons" /\ ~result.called
    /\ \E theme \in {"a", "other"}, fs \in SUBSET ThemeFiles :
          \E r \in {Icons_find_icon(icons, fs, "foo", 2, 1, theme, overflow_checks)} :
              /\ theme_arg' = theme
              /\ files' = fs
              /\ theme_found' = IF r.theme = None THEN NoResult
                                ELSE [called |-> TRUE, panic |-> r.theme[1].out.panic,
                                      ret |-> r.theme[1].out.ret]
              /\ consulted' = IF r.theme = None THEN <<>> ELSE r.theme[1].consulted
              /\ result' = [called |-> TRUE, panic |-> r.out.panic, ret |-> r.out.ret]
    /\ icon_name' = "foo"
    /\ icon_size' = 2
    /\ icon_scale' = 1
    /\ UNCHANGED <<unit_vars, resolve_vars, overflow_checks, size_vars, info, found,
                   standalone_icons, icons>>

IconsNext == Next \/ MakeIcons \/ IconsFindIcon

SpecIcons == IconsInit /\ [][IconsNext]_vars

----------------------------------------------------------------------------
(* Specification SpecParse: ThemeIndex::parse on the directory sections     *)

\* the decimal digits, by value
DigitChars == <<"0", "1", "2", "3", "4", "5", "6", "7", "8", "9">>

\* the decimal text of a number
RECURSIVE Decimal(_)
Decimal(n) ==
    IF n < 10 THEN <<DigitChars[n + 1]>>
    ELSE Decimal(n \div 10) \o <<DigitChars[(n % 10) + 1]>>

\* the Directories attribute of [Icon Theme]
IndexDirectories == <<"apps", "more">>

\* values of the attributes of a directory section
SizeTexts ==
    { Decimal(0), Decimal(2), Decimal(3), Decimal(U32_MAX), Decimal(U32_MAX + 1),
      <<"+", "2">>, <<"-", "2">>, <<"x">>, <<>> }
LimitTexts == { Decimal(0), Decimal(2), Decimal(U32_MAX), <<"x">> }
ScaleTexts == { Decimal(1), Decimal(2), <<>> }
ThresholdTexts == { Decimal(0), <<"2", "x">> }
TypeTexts == { "Fixed", "Scalable", "Threshold", "", "Bogus" }

\* an attribute left out, or present with one of the values
Optional(values) == {None} \cup { Some(v) : v \in values }

\* the section with the attributes given
SectionOf(title, size, scale, type, max_size, min_size, threshold) ==
    LET given == [Size |-> size, Scale |-> scale, Type |-> type,
                  MaxSize |-> max_size, MinSize |-> min_size,
                  Threshold |-> threshold]
    IN  [title |-> title,
         attrs |-> [n \in { m \in DOMAIN given : given[m] # None } |-> given[n][1]]]

\* the sections that may follow the first
MoreSections ==
    { <<>>,
      << SectionOf("junk", Some(<<"x">>), None, None, None, None, None) >>,
      << SectionOf("more", Some(<<"x">>), None, None, None, None, None) >>,
      << SectionOf("more", Some(Decimal(2)), None, None, None, None, None) >> }

ParseInit ==
    /\ \E size \in Optional(SizeTexts), scale \in Optional(ScaleTexts),
          type \in Optional(TypeTexts), max_size \in Optional(LimitTexts),
          min_size \in Optional(LimitTexts), threshold \in Optional(ThresholdTexts),
          more \in MoreSections :
          index_sections =
             <<SectionOf("apps", size, scale, type, max_size, min_size, threshold)>>
             \o more
    /\ index_result = NoResult
    /\ FileIdle
    /\ SearchIdle
    /\ overflow_checks = FALSE
    /\ icon_size = 0
    /\ icon_scale = 0
    /\ SizeIdle
    /\ LookupIdle
    /\ ResolveIdle
    /\ standalone_icons = <<>>
    /\ IconsIdle

\* ThemeIndex::parse, from the Directories attribute on
ThemeIndexParse ==
    /\ ~index_result.called
    /\ index_sections # <<>>
    /\ \E r \in {parse_directories(index_sections, IndexDirectories, None, 1)} :
          index_result' = [called |-> TRUE, ok |-> r.ok,
                           directories |-> IF r.ok THEN r.val ELSE <<>>,
                           err |-> IF r.ok THEN "" ELSE r.err]
    /\ UNCHANGED <<index_sections, file_vars, search_vars, overflow_checks,
                   icon_size, icon_scale, size_vars, lookup_vars, resolve_vars,
                   standalone_icons, icons_vars>>

ParseNext == ThemeIndexParse

SpecParse == ParseInit /\ [][ParseNext]_vars

----------------------------------------------------------------------------
(* Specification SpecFromPath: IconFile::from_path on one path              *)

\* the extensions of the paths; "" is a path without extension
PathExts ==
    { "png", "PNG", "Png", "xpm", "XPM", "Xpm", "xmp", "XMP", "svg", "SVG", "Svg",
      "jpg", "pngx", "" }

FromPathInit ==
    /\ file_path \in [base : {"pixmaps", "home"}, dir : {"", "2x2"},
                      stem : {"foo", "bar", "foo.png"}, ext : PathExts]
    /\ icon_file = NoResult
    /\ ParseIdle
    /\ SearchIdle
    /\ overflow_checks = FALSE
    /\ icon_size = 0
    /\ icon_scale = 0
    /\ SizeIdle
    /\ LookupIdle
    /\ ResolveIdle
    /\ standalone_icons = <<>>
    /\ IconsIdle

\* IconFile::from_path(&file_path)
FromPathCall ==
    /\ ~icon_file.called
    /\ file_path # <<>>
    /\ icon_file' = [called |-> TRUE, panic |-> FALSE, ret |-> from_path(file_path)]
    /\ UNCHANGED <<file_path, parse_vars, search_vars, overflow_checks,
                   icon_size, icon_scale, size_vars, lookup_vars, resolve_vars,
                   standalone_icons, icons_vars>>

FromPathNext == FromPathCall

SpecFromPath == FromPathInit /\ [][FromPathNext]_vars

----------------------------------------------------------------------------
(* Specification SpecAppend: SearchDirectories::append                      *)

\* largest number of directories in self.dirs and in the argument
MaxSearchDirs == 2

\* the directories that occur
SearchPaths == {"home/.icons", "usr/share/icons", "usr/share/pixmaps"}

AppendInit ==
    /\ dirs \in BoundedSeqs(SearchPaths, MaxSearchDirs)
    /\ directories \in BoundedSeqs(SearchPaths, MaxSearchDirs)
    /\ appended = [called |-> FALSE, dirs |-> <<>>]
    /\ ParseIdle
    /\ FileIdle
    /\ overflow_checks = FALSE
    /\ icon_size = 0
    /\ icon_scale = 0
    /\ SizeIdle
    /\ LookupIdle
    /\ ResolveIdle
    /\ standalone_icons = <<>>
    /\ IconsIdle

\* self.append(directories)
AppendCall ==
    /\ ~appended.called
    /\ appended' = [called |-> TRUE, dirs |-> append(dirs, directories).dirs]
    /\ UNCHANGED <<dirs, directories, parse_vars, file_vars, overflow_checks,
                   icon_size, icon_scale, size_vars, lookup_vars, resolve_vars,
                   standalone_icons, icons_vars>>

AppendNext == AppendCall

SpecAppend == AppendInit /\ [][AppendNext]_vars

----------------------------------------------------------------------------
(* Claims about find_icon_here (SpecLookup)                                 *)

\* the directories of the theme that hold a candidate file of the request
HoldsCandidate(sub_dir) ==
    \E b \in Range(info.base_dirs), e \in Range(EXTENSIONS) :
        JoinPath(b, sub_dir, icon_name, e) \in files

\* the directory of the theme the returned file lies in
DirOf(file) ==
    CHOOSE sub_dir \in Range(info.directories) :
        sub_dir.directory_name = file.path.dir

Returned_File == found.called /\ ~found.panic /\ found.ret # None

\* C2: exact-match priority.  If some directory of the theme matches the
\* requested size and scale and holds a candidate file, find_icon_here
\* returns a file, and that file lies in a directory that matches the
\* requested size and scale.
C2_ExactMatchPriority ==
    ( /\ found.called
      /\ \E sub_dir \in Range(info.directories) :
            /\ matches_size(sub_dir, icon_size, icon_scale)
            /\ HoldsCandidate(sub_dir) )
    => /\ Returned_File
       /\ matches_size(DirOf(found.ret[1]), icon_size, icon_scale)

\* C2 witness: the file came from a matching directory although another
\* directory, which does not match, holds a candidate at a smaller distance.
C2_Witness ==
    /\ Returned_File
    /\ matches_size(DirOf(found.ret[1]), icon_size, icon_scale)
    /\ \E other \in Range(info.directories) :
          /\ ~matches_size(other, icon_size, icon_scale)
          /\ HoldsCandidate(other)
          /\ size_distance(other, icon_size, icon_scale, FALSE).val
               < size_distance(DirOf(found.ret[1]), icon_size, icon_scale, FALSE).val

\* the file `name.ext` beside the returned file exists
Beside(file, ext) == [file.path EXCEPT !.ext = ext] \in files

\* C3: extension order.  Whenever the directory the result comes from holds
\* the icon under more than one of the extensions png, xpm, svg, the returned
\* file is the png if it exists, else the xpm, else the svg.
C3_ExtensionOrder ==
    ( /\ Returned_File
      /\ Cardinality({ e \in {"png", "xpm", "svg"} : Beside(found.ret[1], e) }) > 1 )
    => found.ret[1].path.ext =
          IF Beside(found.ret[1], "png") THEN "png"
          ELSE IF Beside(found.ret[1], "xpm") THEN "xpm"
          ELSE "svg"

\* position of the first (base_dir, sub_dir) pair, in loop order, that holds
\* `file`'s directory under `file`'s base dir
PairIndex(pairs, base, sub_dir) ==
    CHOOSE i \in DOMAIN pairs : pairs[i].base = base /\ pairs[i].sub_dir = sub_dir

\* a (base_dir, sub_dir) pair that holds a candidate file
PairHolds(pair) ==
    \E e \in Range(EXTENSIONS) :
        JoinPath(pair.base, pair.sub_dir, icon_name, e) \in files

\* C10: nearest-match fallback.  When no directory that matches the request
\* exactly holds the icon but some candidate file exists, find_icon_here
\* returns a file; it lies in a directory whose size_distance is minimal
\* among the directories that hold a candidate, and among those of minimal
\* distance the first in (base_dir, directory) order wins.
C10_NearestFallback ==
    LET pairs == Pairs(info.base_dirs, info.directories, 1, 1)
        dist(sub_dir) == size_distance(sub_dir, icon_size, icon_scale, FALSE).val
    IN  ( /\ found.called
          /\ ~\E sub_dir \in Range(info.directories) :
                /\ matches_size(sub_dir, icon_size, icon_scale)
                /\ HoldsCandidate(sub_dir)
          /\ \E sub_dir \in Range(info.directories) : HoldsCandidate(sub_dir) )
        => /\ Returned_File
           /\ LET won == PairIndex(pairs, found.ret[1].path.base, DirOf(found.ret[1]))
              IN  \A i \in DOMAIN pairs :
                     PairHolds(pairs[i]) =>
                        \/ dist(pairs[won].sub_dir) < dist(pairs[i].sub_dir)
                        \/ /\ dist(pairs[won].sub_dir) = dist(pairs[i].sub_dir)
                           /\ won <= i

----------------------------------------------------------------------------
(* Claims about size_distance and matches_size (SpecSize)                   *)

\* C8: for a Threshold directory, matches_size(s, k) = true implies
\* size_distance(s, k) = 0, also when the directory's size is smaller than
\* its threshold.
C8_MatchImpliesZeroDistance ==
    ( /\ distance.called /\ matches.called
      /\ dir.directory_type = "Threshold"
      /\ matches.val = 1 )
    => ~distance.panic /\ distance.val = 0

\* C9: in the Threshold branch of size_distance, for a directory with
\* size < threshold, the lower bound (size - threshold) * scale is computed
\* without underflow: no panic, and the clamped value 0 instead of a wrapped
\* one.
C9_LowerBoundNoUnderflow ==
    ( /\ distance.called
      /\ dir.directory_type = "Threshold"
      /\ dir.size < dir.threshold
      /\ ~u32_mul(icon_size, icon_scale, overflow_checks).panic )
    => /\ ~threshold_lower(dir, overflow_checks).panic
       /\ threshold_lower(dir, overflow_checks).val = 0

----------------------------------------------------------------------------
(* Claims about resolve_only (Spec)                                         *)

\* C1: whenever a Theme is constructed, every theme in positions 1..end of
\* its own chain already has a built Theme value, so the parent lookup never
\* hits an empty slot and resolve completes without a panic.
C1_ParentsBuiltBeforeChild ==
    /\ pc # "panic"
    /\ ( /\ pc = "build" /\ chain_i <= Len(theme_chains)
         /\ theme_descriptions[theme_chains[chain_i][rev_pos]] # None )
       => \A k \in 2..Len(theme_chains[theme_chains[chain_i][rev_pos]]) :
             full_themes[theme_chains[theme_chains[chain_i][rev_pos]][k]] # None

NoDuplicates(q) == \A i, j \in DOMAIN q : q[i] = q[j] => i = j

\* C4: no-parent-revisit.  No chain holds an index twice, and the parents of
\* every built Theme hold each ancestor at most once and never the theme
\* itself.
C4_NoParentRevisit ==
    /\ NoDuplicates(chain)
    /\ \A i \in DOMAIN theme_chains : NoDuplicates(theme_chains[i])
    /\ \A i \in DOMAIN full_themes :
          full_themes[i] # None =>
             /\ NoDuplicates(full_themes[i][1].parents)
             /\ ~Contains(full_themes[i][1].parents, i)

\* C4 witness: resolve_only has built a theme that inherits itself and names
\* one parent twice, and the theme has parents.
C4_Witness ==
    /\ pc = "done"
    /\ \E i \in DOMAIN full_themes :
          LET inh == full_themes[i][1].description.inherits
          IN  /\ Contains(inh, theme_names[i])
              /\ ~NoDuplicates(inh)
              /\ full_themes[i][1].parents # <<>>

\* the names of the surviving themes reachable from the names in S through
\* Inherits
RECURSIVE Reachable(_)
Reachable(S) ==
    LET T == S \cup { m \in Range(theme_names) :
                         \E n \in S : Contains(inherits[n], m) }
    IN  IF T = S THEN S ELSE Reachable(T)

Occurrences(q, x) == Cardinality({ i \in DOMAIN q : q[i] = x })

\* C5: hicolor membership.  When hicolor has a valid descriptor it is
\* gathered whatever was requested, the chain of every surviving theme holds
\* it exactly once, and it is the last element of a chain whose theme does
\* not reach it through Inherits.
C5_HicolorMembership ==
    ( disk["hicolor"] = "ok" /\ pc \in {"chains", "build", "done", "panic"} )
    => /\ hicolor_idx # None
       /\ theme_names[hicolor_idx[1]] = "hicolor"
       /\ \A i \in DOMAIN theme_chains :
             /\ Occurrences(theme_chains[i], hicolor_idx[1]) = 1
             /\ "hicolor" \notin Reachable({theme_names[i]})
                   => theme_chains[i][Len(theme_chains[i])] = hicolor_idx[1]

\* C5 witness: resolve_only is done, hicolor was neither requested nor
\* inherited by a requested theme, and it ends the chain of a theme with a
\* parent of its own.
C5_Witness ==
    /\ pc = "done"
    /\ disk["hicolor"] = "ok"
    /\ \E i \in DOMAIN theme_chains :
          /\ "hicolor" \notin Reachable({theme_names[i]})
          /\ Len(theme_chains[i]) = 3
          /\ theme_chains[i][3] = hicolor_idx[1]

----------------------------------------------------------------------------
(* Claims about Theme::find_icon and Icons::find_icon (SpecIcons)           *)

\* the theme Icons::find_icon looks the icon up in
ChosenTheme == IF theme_arg \in DOMAIN icons.themes THEN theme_arg ELSE "hicolor"

\* the theme and its parents, in the order of the lookup
LookupChain == <<ChosenTheme>> \o icons.themes[ChosenTheme].inherits_from

\* the outcome of find_icon_here on a theme for the request made
HereOutcome(n) ==
    find_icon_here(icons.themes[n].info, files, icon_name, icon_size, icon_scale,
                   overflow_checks)

\* C6: inheritance traversal.  Theme::find_icon returns the outcome of
\* find_icon_here on the theme itself when that is not None, else that of the
\* first theme in parents order for which it is not None, and None only when
\* every theme of the chain yields None; no theme is consulted twice.
C6_InheritanceTraversal ==
    theme_found.called =>
       LET hits == { k \in DOMAIN LookupChain : HereOutcome(LookupChain[k]) # Ret(None) }
       IN  /\ NoDuplicates(consulted)
           /\ hits = {} =>
                 /\ ~theme_found.panic /\ theme_found.ret = None
                 /\ consulted = LookupChain
           /\ hits # {} =>
                 LET first == CHOOSE k \in hits : \A j \in hits : k <= j
                 IN  /\ theme_found.panic = HereOutcome(LookupChain[first]).panic
                     /\ theme_found.ret = HereOutcome(LookupChain[first]).ret
                     /\ consulted = SubSeq(LookupChain, 1, first)

\* C6 witness: the theme and its first parent do not hold the icon, the second
\* parent does, and its file is returned after three lookups.
C6_Witness ==
    /\ theme_found.called /\ ~theme_found.panic
    /\ Len(consulted) = 3
    /\ theme_found.ret # None
    /\ theme_found.ret[1].path.base = ThemeBaseDirs(consulted[3])[1]

\* C7: standalone fallback.  For every requested theme name and every set of
\* resolved themes, also one where neither the theme name nor hicolor is
\* known: if no theme holds the icon but a standalone file has the name as
\* its stem, Icons::find_icon returns the first such standalone file.
C7_StandaloneFallback ==
    ( /\ result.called
      /\ files = {}
      /\ find_standalone_icon(icons, icon_name) # None )
    => /\ ~result.panic
       /\ result.ret = find_standalone_icon(icons, icon_name)

----------------------------------------------------------------------------
(* Claims about the chains of resolve_only (SpecChains)                     *)

\* the index of a surviving theme name
IdxOf(name) == CHOOSE i \in DOMAIN theme_names : theme_names[i] = name

\* the direct parents of the theme at index i that resolve to an index, in
\* the order of its Inherits list
ResolvedParents(i) ==
    LET listed == SelectSeq(inherits[theme_names[i]],
                            LAMBDA n : n \in Range(theme_names))
    IN  [k \in DOMAIN listed |-> IdxOf(listed[k])]

\* a sequence without the later occurrences of its elements and without x
RECURSIVE FirstOccurrences(_, _)
FirstOccurrences(q, x) ==
    IF q = <<>> THEN <<>>
    ELSE LET front == FirstOccurrences(SubSeq(q, 1, Len(q) - 1), x)
             last == q[Len(q)]
         IN  IF last = x \/ last \in Range(front) THEN front
             ELSE Append(front, last)

\* the indices reached from i in at most d steps of Inherits
RECURSIVE Within(_, _)
Within(i, d) ==
    IF d = 0 THEN {i}
    ELSE LET near == Within(i, d - 1)
         IN  near \cup UNION { Range(ResolvedParents(j)) : j \in near }

\* the indices reached from i within d steps, for every d up to the number
\* of surviving themes
Layers(i) == [d \in 0..Len(theme_names) |-> Within(i, d)]

\* the inheritance depth at which x is first reached, given the layers
Depth(within, x) ==
    CHOOSE d \in DOMAIN within :
        x \in within[d] /\ (d = 0 \/ x \notin within[d - 1])

\* C11: chain order is breadth-first and keeps the Inherits order.  The chain
\* of every surviving theme T starts with T, goes on with T's resolvable
\* direct parents in the order of T's Inherits list (first occurrences
\* only), lists every theme first reached at depth d before every theme first
\* reached at depth d + 1, and holds exactly the surviving themes reachable
\* from T through Inherits, plus hicolor.
C11_ChainBreadthFirst ==
    \A i \in DOMAIN theme_chains :
       \A within \in {Layers(i)} :
          LET ch == theme_chains[i]
              reach == within[Len(theme_names)]
              direct == FirstOccurrences(ResolvedParents(i), i)
          IN  /\ ch[1] = i
              /\ Len(ch) >= 1 + Len(direct)
              /\ SubSeq(ch, 2, 1 + Len(direct)) = direct
              /\ \A p, q \in DOMAIN ch :
                    ( /\ ch[p] \in reach /\ ch[q] \in reach
                      /\ Depth(within, ch[q]) = Depth(within, ch[p]) + 1 )
                    => p < q
              /\ Range(ch) = reach \cup Range(hicolor_idx)

\* C11 witness: a chain of four themes whose second and third are direct
\* parents and whose fourth is first reached at depth 2, through the second.
C11_Witness ==
    \E i \in DOMAIN theme_chains :
       \E within \in {Layers(i)} :
          LET ch == theme_chains[i]
          IN  /\ Len(ch) = 4
              /\ Depth(within, ch[2]) = 1
              /\ Depth(within, ch[3]) = 1
              /\ ch[4] \in within[2] /\ Depth(within, ch[4]) = 2
              /\ ch[4] \in Range(ResolvedParents(ch[2]))

----------------------------------------------------------------------------
(* Claims about bad themes and termination in resolve_only (Spec)           *)

\* a theme name without a usable index.theme
Missing(n) == disk[n] # "ok"

\* C12: local recovery of bad themes.  A theme name whose folders are absent,
\* hold no index.theme or hold one that fails to parse is recorded once, as
\* missing; it is not in the surviving set nor in any chain; every requested
\* theme with a valid index survives; a theme that names a missing parent
\* keeps its other parents in its chain and is built with them when resolve
\* completes, and a panic of the build is never about a missing name.
C12_BadThemesRecovered ==
    /\ NoDuplicates(parsed)
    /\ \A n \in DOMAIN disk :
          Missing(n) =>
             /\ n \in DOMAIN themes => themes[n] = None
             /\ n \notin Range(theme_names)
    /\ pc # "collect" =>
          \A k \in DOMAIN requested :
             ~Missing(requested[k]) => requested[k] \in Range(theme_names)
    /\ \A k \in DOMAIN chain : chain[k] \in DOMAIN theme_names
    /\ \A i \in DOMAIN theme_chains :
          /\ \A k \in DOMAIN theme_chains[i] :
                /\ theme_chains[i][k] \in DOMAIN theme_names
                /\ ~Missing(theme_names[theme_chains[i][k]])
          /\ \A n \in Range(inherits[theme_names[i]]) :
                ~Missing(n) /\ n \in DOMAIN themes
                   => \E k \in DOMAIN theme_chains[i] :
                         theme_names[theme_chains[i][k]] = n
    /\ pc = "done" =>
          \A i \in DOMAIN theme_names :
             /\ full_themes[i] # None
             /\ full_themes[i][1].parents = Tail(theme_chains[i])
    /\ pc = "panic" =>
          \E i \in DOMAIN theme_names :
             /\ full_themes[i] = None
             /\ ~Missing(theme_names[i])
             /\ \E k \in 2..Len(theme_chains[theme_chains[chain_i][rev_pos]]) :
                   theme_chains[theme_chains[chain_i][rev_pos]][k] = i

\* C12 witness: resolve_only is done; a requested theme is missing, and
\* another requested theme that names a missing parent first and a valid one
\* after it is built with the valid one as its parent.
C12_Witness ==
    /\ pc = "done"
    /\ \E k \in DOMAIN requested : Missing(requested[k])
    /\ \E i \in DOMAIN full_themes :
          LET inh == inherits[theme_names[i]]
          IN  /\ \E k \in DOMAIN requested : requested[k] = theme_names[i]
              /\ Len(inh) >= 2
              /\ Missing(inh[1])
              /\ ~Missing(inh[2]) /\ inh[2] # theme_names[i]
              /\ full_themes[i][1].parents # <<>>
              /\ theme_names[full_themes[i][1].parents[1]] = inh[2]

----------------------------------------------------------------------------
(* Claims about ThemeIndex::parse and DirectoryIndex::parse (SpecParse)     *)

\* C13: every DirectoryIndex of a ThemeIndex that parsed satisfies
\* min_size <= size <= max_size, whatever Size, MinSize and MaxSize the
\* section gives.
C13_SizeWithinLimits ==
    (index_result.called /\ index_result.ok) =>
       \A k \in DOMAIN index_result.directories :
          /\ index_result.directories[k].min_size <= index_result.directories[k].size
          /\ index_result.directories[k].size <= index_result.directories[k].max_size

\* the first section gets as far as its Type attribute
ReachesType ==
    /\ find_attr(index_sections[1], "Size") # None
    /\ parse_u32(find_attr(index_sections[1], "Size")[1]).ok
    /\ parse_or(index_sections[1], "Scale", 1).ok

\* C14: DirectoryIndex::parse yields the type Threshold both when the Type
\* attribute is missing and when it is present with an empty value; only a
\* non-empty value other than Fixed, Scalable and Threshold yields
\* InvalidDirectoryType.
C14_TypeDefault ==
    (index_result.called /\ ReachesType) =>
       LET type == find_attr(index_sections[1], "Type")
       IN  /\ (type = None \/ type = Some(""))
              => /\ index_result.err # "InvalidDirectoryType"
                 /\ index_result.ok
                       => index_result.directories[1].directory_type = "Threshold"
           /\ index_result.err = "InvalidDirectoryType"
              => /\ type # None
                 /\ type[1] \notin {"", "Fixed", "Scalable", "Threshold"}

----------------------------------------------------------------------------
(* Claims about IconFile::from_path (SpecFromPath)                          *)

\* C15: from_path returns an IconFile exactly when the extension of the path,
\* compared without regard to case, is one of png, xpm, svg, and nothing for
\* any other extension or for a path without extension; the extensions it
\* accepts are those find_icon_here builds its candidate file names from.
C15_RecognisedExtensions ==
    icon_file.called =>
       /\ icon_file.ret # None <=> AsciiLower(file_path.ext) \in {"png", "xpm", "svg"}
       /\ icon_file.ret # None <=> AsciiLower(file_path.ext) \in Range(EXTENSIONS)

----------------------------------------------------------------------------
(* Claims about SearchDirectories::append (SpecAppend)                      *)

\* C16: append returns a SearchDirectories whose dirs are the previous dirs
\* followed by the given directories, in order: no directory is lost and
\* every added directory is present.
C16_AppendKeepsAll ==
    appended.called => appended.dirs = dirs \o directories

----------------------------------------------------------------------------
(* Claims about the order of the surviving themes (SpecIcons)               *)

\* the chain walk of resolve_only from the chain ch and the cursor cur, for
\* the index order `names`
RECURSIVE WalkChain(_, _, _)
WalkChain(ch, cur, names) ==
    IF cur > Len(ch) THEN ch
    ELSE WalkChain(PushParents(ch, inherits[names[ch[cur]]], names, 1), cur + 1, names)

\* the chains resolve_only computes for the index order `names`
ChainsOf(names) ==
    [i \in DOMAIN names |->
        PushHicolor(WalkChain(<<i>>, 1, names), Position(names, "hicolor"))]

\* the build loops of resolve_only from chain ci, reverse position rp, with
\* the themes of `built` constructed: TRUE when they run to their end, FALSE
\* when a parent without a Theme is unwrapped
RECURSIVE BuildCompletes(_, _, _, _)
BuildCompletes(chains, ci, rp, built) ==
    IF ci > Len(chains) THEN TRUE
    ELSE IF rp = 0
    THEN BuildCompletes(chains, ci + 1,
                        IF ci < Len(chains) THEN Len(chains[ci + 1]) ELSE 0, built)
    ELSE LET theme_idx == chains[ci][rp]
         IN  IF theme_idx \in built
             THEN BuildCompletes(chains, ci, rp - 1, built)
             ELSE IF \E k \in 2..Len(chains[theme_idx]) :
                        chains[theme_idx][k] \notin built
             THEN FALSE
             ELSE BuildCompletes(chains, ci, rp - 1, built \cup {theme_idx})

\* resolve_only runs to its end for the index order `names`
Completes(names) ==
    names = <<>> \/ BuildCompletes(ChainsOf(names), 1, Len(ChainsOf(names)[1]), {})

\* the index orders of the surviving themes
IndexOrders ==
    { q \in [DOMAIN theme_names -> Range(theme_names)] :
         \A i, j \in DOMAIN q : q[i] = q[j] => i = j }

\* C17: determinism.  For the same requested names, index contents and
\* filesystem, the outcome of resolve followed by Icons::find_icon is the same
\* for every order in which the gathered themes are indexed: every order
\* ends as this one does, with the same parents for every theme.
C17_Determinism ==
    pc \in {"panic", "done", "icons"} =>
       \A names \in IndexOrders :
          /\ Completes(names) <=> pc # "panic"
          /\ pc = "icons" =>
                \A i \in DOMAIN names :
                   icons.themes[names[i]].inherits_from =
                      [k \in 1..(Len(ChainsOf(names)[i]) - 1) |->
                          names[ChainsOf(names)[i][k + 1]]]

----------------------------------------------------------------------------
(* Claims about termination of resolve_only (SpecChainsFair)                *)

\* resolve_only is sequential code that keeps running: a step that can be
\* taken is taken
SpecChainsFair == ChainsInit /\ [][Next]_vars /\ WF_vars(Next)

\* the recursion of collect_themes is no deeper than the number of names,
\* no name is read more often than once, and no chain is longer than the
\* number of surviving themes
ChainsBounded ==
    /\ Len(stack) <= Cardinality(DOMAIN disk)
    /\ Len(parsed) <= Cardinality(DOMAIN disk)
    /\ Len(chain) <= Len(theme_names)
    /\ \A i \in DOMAIN theme_chains : Len(theme_chains[i]) <= Len(theme_names)

\* C18: termination under cycles.  For every Inherits relation, with themes
\* that inherit themselves and with cycles, the gathering of the descriptors
\* and the chain walk of every theme come to an end, and no chain has more
\* elements than there are surviving themes.
C18_Termination ==
    /\ []ChainsBounded
    /\ <>(pc \in {"build", "done", "panic"})

\* C18 witness: the chains are complete for three themes that inherit one
\* another in a cycle, one of which names itself as well.
C18_Witness ==
    /\ pc = "build"
    /\ Contains(inherits["a"], "b")
    /\ Contains(inherits["b"], "a") \/ (Contains(inherits["b"], "c") /\ Contains(inherits["c"], "a"))
    /\ \E n \in DOMAIN inherits : Contains(inherits[n], n)
    /\ Len(theme_chains) = Len(theme_names)

----------------------------------------------------------------------------
(* Claims about the arithmetic of find_icon_here (SpecLookup)               *)

\* the nearest-match pass of the call ran: the exact pass found no file
NearestPassRan ==
    /\ found.called
    /\ ExactPass(Pairs(info.base_dirs,
                       exact_sub_dirs(info, icon_size, icon_scale), 1, 1),
                 files, icon_name, 1) = None

\* C19: icon lookup never fails.  For every requested size and scale and
\* every directory, find_icon_here ends with a file or with None: it does
\* not abort, and no product or sum of a size_distance it computes leaves
\* the u32 range (which without overflow checks gives a wrapped distance).
C19_LookupNeverFails ==
    found.called =>
       /\ ~found.panic
       /\ NearestPassRan /\ info.base_dirs # <<>> =>
             \A sub_dir \in Range(info.directories) :
                ~size_distance(sub_dir, icon_size, icon_scale, TRUE).panic

====
